---------------------------- MODULE Spec2Model ----------------------------
(***************************************************************************)
(* A model of the METAR / TAF decoder of package metar: the header         *)
(* extraction and section split of NewMETAR and NewTAF, the body walks     *)
(* decodeMetar and decodeTAF, the trend walk parseTrendData, the remarks   *)
(* walk parseRemarks, and the calendar arithmetic behind the time fields.  *)
(*                                                                         *)
(* A message is the sequence of tokens strings.Split(RawData, " ") yields. *)
(* Go slices are 0-based: At(s, i) reads s[i], and a read outside the      *)
(* slice is a run-time panic, which ends the decode (pc in PanicSites).    *)
(* A digit field of a time token is a number; a field that holds a         *)
(* non-digit is NotDigits, and the empty string is the empty tuple.        *)
(***************************************************************************)
EXTENDS Integers, Sequences, FiniteSets, TLC

VARIABLES
    CurYear,     \* metar.CurYearStr
    CurMonth,    \* metar.CurMonthStr
    CurDay,      \* metar.CurDayStr
    kind,        \* the entry point: "METAR", "TAF", or the function called on its own
    tokens,      \* strings.Split(RawData, " ")
    pc,          \* the position of the decode
    m,           \* the MetarMessage / TAFMessage under construction
    err,         \* NewMETAR's error result
    trends,      \* [][]string: the trend slices, each a window [from, to) of tokens
    remarks,     \* []string: the tokens from RMK on
    body,        \* the window [from, to) of tokens handed to decodeMetar / decodeTAF
    ti,          \* the index (1-based) of the trend slice being decoded
    trend,       \* the Trend under construction
    rmk,         \* the Remark under construction
    count,       \* the cursor of the running walk
    itStart,     \* the cursor at the start of the running iteration
    iters,       \* iterations started by the running walk
    log,         \* what log.Println has printed
    calIn,       \* the calendar inputs: issue day, stated day, hour
    calOut,      \* the instants an operation of the calendar resolver returned
    procs        \* the goroutines that are not running: the locals of each decode

vars == <<CurYear, CurMonth, CurDay, kind, tokens, pc, m, err, trends, remarks,
          body, ti, trend, rmk, count, itStart, iters, log, calIn, calOut, procs>>

(***************************************************************************)
(* Bounds of the model.                                                    *)
(***************************************************************************)
MaxBody == 3

-----------------------------------------------------------------------------
(***************************************************************************)
(* Calendar: package time as the decoder uses it.                          *)
(***************************************************************************)
NotDigits == -1

IsLeap(y) == (y % 4 = 0 /\ y % 100 # 0) \/ y % 400 = 0

DaysIn(y, mo) ==
    IF mo = 2 THEN (IF IsLeap(y) THEN 29 ELSE 28)
    ELSE IF mo \in {4, 6, 9, 11} THEN 30 ELSE 31

\* time.Time{}: January 1, year 1, 00:00 UTC
ZeroTime == [y |-> 1, mo |-> 1, d |-> 1, h |-> 0, mi |-> 0]

IsZero(t) == t = ZeroTime

\* time.Parse of CurYearStr + CurMonthStr + the digit fields dd, hh, mi:
\* the zero instant and an error unless every field is in range.
TimeParse(dd, hh, mi) ==
    IF /\ dd \in 1..DaysIn(CurYear, CurMonth)
       /\ hh \in 0..23
       /\ mi \in 0..59
    THEN [t |-> [y |-> CurYear, mo |-> CurMonth, d |-> dd, h |-> hh, mi |-> mi],
          err |-> FALSE]
    ELSE [t |-> ZeroTime, err |-> TRUE]

\* a value that is shorter than the layout does not parse
TimeParseError == [t |-> ZeroTime, err |-> TRUE]

\* t.Add(time.Hour)
AddHour(t) ==
    IF t.h < 23 THEN [t EXCEPT !.h = t.h + 1]
    ELSE IF t.d < DaysIn(t.y, t.mo) THEN [t EXCEPT !.h = 0, !.d = t.d + 1]
    ELSE IF t.mo < 12 THEN [t EXCEPT !.h = 0, !.d = 1, !.mo = t.mo + 1]
    ELSE [t EXCEPT !.h = 0, !.d = 1, !.mo = 1, !.y = t.y + 1]

\* t.AddDate(0, 1, 0): month + 1, a day past the end of that month runs over
\* into the month after it
AddMonth(t) ==
    LET y1  == IF t.mo = 12 THEN t.y + 1 ELSE t.y
        mo1 == IF t.mo = 12 THEN 1 ELSE t.mo + 1
        y2  == IF mo1 = 12 THEN y1 + 1 ELSE y1
        mo2 == IF mo1 = 12 THEN 1 ELSE mo1 + 1
    IN  IF t.d <= DaysIn(y1, mo1)
        THEN [t EXCEPT !.y = y1, !.mo = mo1]
        ELSE [t EXCEPT !.y = y2, !.mo = mo2, !.d = t.d - DaysIn(y1, mo1)]

\* parseTime: a DDHH string, the hour may be 24
parseTime(input) ==
    IF input[2] = 24
    THEN LET p == TimeParse(input[1], 23, 0)
         IN  [t |-> AddHour(p.t), err |-> p.err]
    ELSE TimeParse(input[1], input[2], 0)

\* TAFMessage.setTimeRange: fromStr and toStr are DDHH strings or empty.
\* toStr[2:] of an empty toStr is out of range.
setTimeRange(t, fromStr, toStr) ==
    IF Len(toStr) < 2
    THEN [panic |-> TRUE, ValidFrom |-> t.ValidFrom, ValidTo |-> t.ValidTo]
    ELSE
    LET vf == IF fromStr = <<>> THEN ZeroTime
              ELSE TimeParse(fromStr[1], fromStr[2], 0).t
        vt == IF toStr[2] = 24
              THEN AddHour(TimeParse(toStr[1], 23, 0).t)
              ELSE TimeParse(toStr[1], toStr[2], 0).t
    IN  [panic     |-> FALSE,
         ValidFrom |-> IF vf.d < t.DateTime.d THEN AddMonth(vf) ELSE vf,
         ValidTo   |-> IF vt.d < t.DateTime.d THEN AddMonth(vt) ELSE vt]

\* the instant of a temperature forecast, TAFMessage.addTempForecast:
\* ddhh is the DDHH of the token's DDHHZ
tempForecastTime(t, ddhh) ==
    LET dt == IF ddhh[2] = 24
              THEN AddHour(TimeParse(ddhh[1], 23, 0).t)
              ELSE TimeParse(ddhh[1], ddhh[2], 0).t
    IN  IF dt.d < t.DateTime.d THEN AddMonth(dt) ELSE dt

\* Trend.setDateTime on a token that matches ^(\d{4})/(\d{4}): from and till
\* are the two DDHH captures
setDateTime(tr, from, till) ==
    LET f == parseTime(from)
        l == parseTime(till)
    IN  [trend |-> [tr EXCEPT !.FM = IF f.err THEN @ ELSE f.t,
                              !.TL = IF l.err THEN @ ELSE l.t],
         ok    |-> ~f.err /\ ~l.err,
         log   |-> (IF f.err THEN <<"setDateTime: from">> ELSE <<>>)
                   \o (IF l.err THEN <<"setDateTime: till">> ELSE <<>>)]

\* Trend.setPeriodOfChanges on a token with prefix pfx ("AT", "FM", "TL", or
\* another) and rest input[2:], an hhmm string (NotDigits fields when it is not)
setPeriodOfChanges(tr, pfx, hhmm) ==
    LET p   == IF Len(hhmm) = 2
               THEN TimeParse(CurDay, hhmm[1], hhmm[2]) ELSE TimeParseError
        p24 == IF hhmm = <<24, 0>>
               THEN LET q == TimeParse(CurDay, 23, 0)
                    IN  [t |-> AddHour(q.t), err |-> q.err]
               ELSE p
    IN  CASE pfx = "AT" ->
               IF ~p.err THEN [trend |-> [tr EXCEPT !.AT = p.t], ok |-> TRUE, log |-> <<>>]
               ELSE [trend |-> tr, ok |-> FALSE, log |-> <<"setPeriodOfChanges: AT">>]
          [] pfx = "FM" ->
               IF ~p.err THEN [trend |-> [tr EXCEPT !.FM = p.t], ok |-> TRUE, log |-> <<>>]
               ELSE [trend |-> tr, ok |-> FALSE, log |-> <<"setPeriodOfChanges: FM">>]
          [] pfx = "TL" ->
               IF ~p24.err THEN [trend |-> [tr EXCEPT !.TL = p24.t], ok |-> TRUE, log |-> <<>>]
               ELSE [trend |-> tr, ok |-> FALSE, log |-> <<"setPeriodOfChanges: TL">>]
          [] OTHER -> [trend |-> tr, ok |-> FALSE, log |-> <<>>]


-----------------------------------------------------------------------------
(***************************************************************************)
(* Slices and tokens.  A regular expression of the code is modelled by the *)
(* set of the tokens of the model's vocabulary that it matches.            *)
(***************************************************************************)
At(s, i) == s[i + 1]

InRange(s, i) == i >= 0 /\ i < Len(s)

\* s[from:to]
Slice(s, from, to) == SubSeq(s, from + 1, to)

Max(S) == CHOOSE x \in S : \A y \in S : y <= x

\* how many consecutive tokens of s, from index c on, are in the set S that a
\* matcher accepts: the count of rounds of a loop
\* for c < len(s) && match(s[c]) { c++ }
RunLen(s, c, S) ==
    Max({k \in 0..(Len(s) - c) : \A j \in c..(c + k - 1) : At(s, j) \in S})

\* wind.ParseWind's expression, without its optional dddVddd tail
WindTokens == {"18005MPS"}
\* (\d{3}V\d{3})
VarDirTokens == {"280V350"}
\* visibility.ParseVisibility
VisTokens == {"0500"}
\* phenomena.AppendPhenomena
PhenomenaTokens == {"FG"}
\* phenomena.AppendRecentPhenomena
RecentTokens == {"REFG"}
\* VV(\d{3}|///)
VVTokens == {"VV003"}
\* clouds.ParseCloud's pattern
CloudTokens == {"BKN020"}
\* ^(M)?(\d{2})/(M)?(\d{2})$
TempTokens == {"15/10"}
\* ([Q|A])(\d{4})
AltimeterTokens == {"Q1013"}
\* runways.ParseVisualRange
RVRTokens == {"R24/1000"}
\* runways.ParseState
RwyStateTokens == {"R24/290062"}
\* R\d{2}[LCR]? after "WS "
WSRunwayTokens == {"R03"}
\* ^T(X|N)(M)?(\d\d)\/(\d{4}Z)
TempForecastTokens == {"TX05/2512Z", "TN01/0124Z"}
\* ^(\d{4})/(\d{4})
SpanTokens == {"0112/0212", "2509/2515", "2526/2526"}
\* \w{4} followed by a space
StationTokens == {"UUEE"}
\* \d{6}Z
IssueTimeTokens == {"011200Z", "991200Z"}

\* strings.HasPrefix(token, "PROB")
HasPrefixPROB(tok) == tok \in {"PROB30", "PROB40", "PROB50"}
\* strings.HasPrefix(token, "FM")
HasPrefixFM(tok) == tok \in {"FM241200", "FM1230", "FM22o0"}
\* strings.HasPrefix(token, "AT")
HasPrefixAT(tok) == tok \in {"AT1230", "AT220O"}
\* strings.HasPrefix(token, "TL")
HasPrefixTL(tok) == tok \in {"TL1330", "TL2400", "TL23O0"}

\* the two leading characters of a token, when they are AT, FM or TL
Prefix2(tok) ==
    IF HasPrefixAT(tok) THEN "AT"
    ELSE IF HasPrefixFM(tok) THEN "FM"
    ELSE IF HasPrefixTL(tok) THEN "TL" ELSE ""

\* token[2:] as digit fields, two digits each
Rest2(tok) ==
    CASE tok = "FM241200" -> <<24, 12, 0>>
      [] tok = "FM1230"   -> <<12, 30>>
      [] tok = "FM22o0"   -> <<22, NotDigits>>
      [] tok = "AT1230"   -> <<12, 30>>
      [] tok = "AT220O"   -> <<22, NotDigits>>
      [] tok = "TL1330"   -> <<13, 30>>
      [] tok = "TL2400"   -> <<24, 0>>
      [] tok = "TL23O0"   -> <<23, NotDigits>>
      [] OTHER            -> <<NotDigits>>

\* the first (\d{4}) of a span token
SpanFrom(tok) ==
    CASE tok = "0112/0212" -> <<1, 12>>
      [] tok = "2509/2515" -> <<25, 9>>
      [] tok = "2526/2526" -> <<25, 26>>

\* the second (\d{4}) of a span token
SpanTo(tok) ==
    CASE tok = "0112/0212" -> <<2, 12>>
      [] tok = "2509/2515" -> <<25, 15>>
      [] tok = "2526/2526" -> <<25, 26>>

\* the DDHH of the (\d{4}Z) of a temperature forecast token
TempForecastDDHH(tok) ==
    CASE tok = "TX05/2512Z" -> <<25, 12>>
      [] tok = "TN01/0124Z" -> <<1, 24>>

\* the DD, HH, MM of an issue time token
IssueTimeFields(tok) ==
    CASE tok = "011200Z" -> <<1, 12, 0>>
      [] tok = "991200Z" -> <<99, 12, 0>>


-----------------------------------------------------------------------------
(***************************************************************************)
(* The records.  A decoded group is kept as the token it was decoded from; *)
(* an instant is kept as the calendar resolves it.                         *)
(***************************************************************************)
\* wind.Wind{}
NoWind == [group |-> "", variable |-> ""]

\* a *Remark is the nil pointer or points to one Remark: <<>> or <<the Remark>>
Nil == <<>>

\* &MetarMessage{RawData: inputtext} and &TAFMessage{RawData: inputtext}
NewMessage ==
    [Station |-> "", DateTime |-> ZeroTime,
     COR |-> FALSE, Auto |-> FALSE, AMD |-> FALSE, NIL |-> FALSE, CNL |-> FALSE,
     ValidFrom |-> ZeroTime, ValidTo |-> ZeroTime,
     Wind |-> NoWind, CAVOK |-> FALSE, Visibility |-> "",
     RWYvisibility |-> <<>>, Phenomena |-> <<>>, PhenomenaNotDefined |-> FALSE,
     VerticalVisibility |-> "", Clouds |-> <<>>,
     Temperature |-> "", TemperatureForecast |-> <<>>, QNHhPa |-> "",
     RecentPhenomena |-> <<>>,
     RWYState |-> <<>>, WindShear |-> <<>>, TREND |-> <<>>, NOSIG |-> FALSE,
     Remarks |-> Nil, NotDecodedTokens |-> <<>>]

\* &Trend{}
NewTrend ==
    [Type |-> "", Probability |-> 0,
     FM |-> ZeroTime, TL |-> ZeroTime, AT |-> ZeroTime,
     Visibility |-> "", VerticalVisibility |-> "", Wind |-> NoWind,
     CAVOK |-> FALSE, Phenomena |-> <<>>, Clouds |-> <<>>]

\* &Remark{}
NewRemark ==
    [WindOnRWY |-> <<>>, QBB |-> "", MTOBSC |-> FALSE, MASTOBSC |-> FALSE,
     OBSTOBSC |-> FALSE, QFE |-> ""]

\* the state of a walk: the record it fills, its cursor, whether it has
\* read outside its slice, and what it has logged
Walk(r, c) == [r |-> r, c |-> c, panic |-> FALSE, log |-> <<>>]

Panic(st) == [st EXCEPT !.panic = TRUE]

-----------------------------------------------------------------------------
(***************************************************************************)
(* The groups of the shared grammar.                                       *)
(***************************************************************************)
IsWind(tok) == tok \in WindTokens
IsVis(tok) == tok \in VisTokens
IsVV(tok) == tok \in VVTokens
\* MetarMessage.appendRunwayState: R/SNOCLO or what runways.ParseState accepts
RunwayStates == {"R/SNOCLO"} \cup RwyStateTokens

\* Wind.ParseWind on the string made of the tokens of s: the tokens used and
\* the wind.  The dddVddd group is optional and follows an optional space.
ParseWind(w, s) ==
    IF s = <<>> \/ ~IsWind(s[1]) THEN [used |-> 0, wind |-> w]
    ELSE IF Len(s) >= 2 /\ s[2] \in VarDirTokens
         THEN [used |-> 2, wind |-> [group |-> s[1], variable |-> s[2]]]
         ELSE [used |-> 1, wind |-> [w EXCEPT !.group = s[1]]]

\* visibility.ParseVisibility(tokens[count:]): the tokens used
ParseVisibility(s) == IF s # <<>> /\ IsVis(s[1]) THEN 1 ELSE 0

\* decodeWeatherCondition: visibility, phenomena, vertical visibility, clouds
decodeWeatherCondition(r, c, toks) ==
    LET n  == Len(toks)
        v  == IF c < n THEN ParseVisibility(Slice(toks, c, n)) ELSE 0
        c1 == c + v
        p  == RunLen(toks, c1, PhenomenaTokens)
        c2 == c1 + p
        vv == IF c2 < n /\ IsVV(At(toks, c2)) THEN 1 ELSE 0
        c3 == c2 + vv
        k  == RunLen(toks, c3, CloudTokens)
    IN  [r |-> [r EXCEPT
                  !.Visibility = IF v > 0 THEN At(toks, c) ELSE @,
                  !.Phenomena = @ \o Slice(toks, c1, c2),
                  !.VerticalVisibility = IF vv > 0 THEN At(toks, c2) ELSE @,
                  !.Clouds = @ \o Slice(toks, c3, c3 + k)],
         c |-> c3 + k]

\* setMetarWeatherCondition: visibility, runway visual range, "//", phenomena,
\* vertical visibility, clouds
setMetarWeatherCondition(r, c, toks) ==
    LET n  == Len(toks)
        v  == ParseVisibility(Slice(toks, c, n))
        c1 == c + v
        rv == RunLen(toks, c1, RVRTokens)
        c2 == c1 + rv
        nd == IF c2 < n /\ At(toks, c2) = "//" THEN 1 ELSE 0
        c3 == c2 + nd
        p  == RunLen(toks, c3, PhenomenaTokens)
        c4 == c3 + p
        vv == IF c4 < n /\ IsVV(At(toks, c4)) THEN 1 ELSE 0
        c5 == c4 + vv
        k  == RunLen(toks, c5, CloudTokens)
    IN  [r |-> [r EXCEPT
                  !.Visibility = IF v > 0 THEN At(toks, c) ELSE @,
                  !.RWYvisibility = @ \o Slice(toks, c1, c2),
                  !.PhenomenaNotDefined = IF nd > 0 THEN TRUE ELSE @,
                  !.Phenomena = @ \o Slice(toks, c3, c4),
                  !.VerticalVisibility = IF vv > 0 THEN At(toks, c4) ELSE @,
                  !.Clouds = @ \o Slice(toks, c5, c5 + k)],
         c |-> c5 + k]


-----------------------------------------------------------------------------
(***************************************************************************)
(* decodeMetar: one iteration of the walk over the body slice toks.        *)
(***************************************************************************)
\* the match of ^WS\s((R\d{2}[LCR]?)|(ALL\sRWY)) on the tokens from c on:
\* the tokens of the match, 0 when there is none
windShearMatch(toks, c) ==
    IF ~(InRange(toks, c) /\ At(toks, c) = "WS") THEN 0
    ELSE IF InRange(toks, c + 1) /\ At(toks, c + 1) \in WSRunwayTokens THEN 2
    ELSE IF /\ InRange(toks, c + 2)
            /\ At(toks, c + 1) = "ALL"
            /\ At(toks, c + 2) = "RWY" THEN 3
    ELSE 0

\* one round of the loop of appendWindShears: the designator and the tokens used
windShearStep(toks, c) ==
    IF windShearMatch(toks, c) = 3
    THEN [rd |-> "ALL RWY", used |-> 3]
    ELSE [rd |-> At(toks, c + 1), used |-> 2]

RECURSIVE appendWindShears(_, _, _)
\* appendWindShears, and the caller's count += tokensused
appendWindShears(r, toks, c) ==
    IF windShearMatch(toks, c) = 0 THEN [r |-> r, c |-> c]
    ELSE LET w == windShearStep(toks, c)
         IN  appendWindShears([r EXCEPT !.WindShear = Append(@, w.rd)],
                              toks, c + w.used)

\* count += m.ParseWind(strings.Join(tokens[count:], " "))
MetarWind(st, toks) ==
    LET w == ParseWind(st.r.Wind, Slice(toks, st.c, Len(toks)))
    IN  [st EXCEPT !.r.Wind = w.wind, !.c = st.c + w.used]

\* if tokens[count] == "CAVOK" { ... } else { setMetarWeatherCondition }
MetarCavokOrWeather(st, toks) ==
    IF st.panic THEN st
    ELSE IF ~InRange(toks, st.c) THEN Panic(st)
    ELSE IF At(toks, st.c) = "CAVOK"
         THEN [st EXCEPT !.r.CAVOK = TRUE, !.c = st.c + 1]
         ELSE LET w == setMetarWeatherCondition(st.r, st.c, toks)
              IN  [st EXCEPT !.r = w.r, !.c = w.c]

\* if m.setTemperature(tokens[count]) { count++ }
MetarTemperature(st, toks) ==
    IF st.panic THEN st
    ELSE IF ~InRange(toks, st.c) THEN Panic(st)
    ELSE IF At(toks, st.c) \in TempTokens
         THEN [st EXCEPT !.r.Temperature = At(toks, st.c), !.c = st.c + 1]
         ELSE st

\* if m.setAltimetr(tokens[count]) { count++ }
MetarAltimeter(st, toks) ==
    IF st.panic THEN st
    ELSE IF ~InRange(toks, st.c) THEN Panic(st)
    ELSE IF At(toks, st.c) \in AltimeterTokens
         THEN [st EXCEPT !.r.QNHhPa = At(toks, st.c), !.c = st.c + 1]
         ELSE st

\* recent weather, wind shear, state of the runways
MetarOptional(st, toks) ==
    IF st.panic THEN st
    ELSE LET k  == RunLen(toks, st.c, RecentTokens)
             r1 == [st.r EXCEPT !.RecentPhenomena = @ \o Slice(toks, st.c, st.c + k)]
             w  == appendWindShears(r1, toks, st.c + k)
             j  == RunLen(toks, w.c, RunwayStates)
         IN  [st EXCEPT !.r = [w.r EXCEPT !.RWYState = @ \o Slice(toks, w.c, w.c + j)],
                        !.c = w.c + j]

\* a walk that reports the token and leaves the cursor where it is
NotDecodedStuck(st, toks) ==
    IF st.panic THEN st
    ELSE IF st.c < Len(toks)
         THEN [st EXCEPT !.r.NotDecodedTokens = Append(@, At(toks, st.c))]
         ELSE st

\* the token is not recognized or is located in the wrong position
NotDecoded(st, toks) ==
    IF st.panic THEN st
    ELSE IF st.c < Len(toks)
         THEN [st EXCEPT !.r.NotDecodedTokens = Append(@, At(toks, st.c)),
                         !.c = st.c + 1]
         ELSE st

decodeMetarIteration(r, c, toks) ==
    NotDecoded(
      MetarOptional(
        MetarAltimeter(
          MetarTemperature(
            MetarCavokOrWeather(
              MetarWind(Walk(r, c), toks), toks), toks), toks), toks), toks)

-----------------------------------------------------------------------------
(***************************************************************************)
(* decodeTAF: one iteration of the walk over the body slice toks.          *)
(***************************************************************************)
\* count += t.ParseWind(tokens[count])
TafWind(st, toks) ==
    LET w == ParseWind(st.r.Wind, <<At(toks, st.c)>>)
    IN  [st EXCEPT !.r.Wind = w.wind, !.c = st.c + w.used]

\* if tokens[count] == "CAVOK" { ... } else { decodeWeatherCondition }
TafCavokOrWeather(st, toks) ==
    IF st.panic THEN st
    ELSE IF ~InRange(toks, st.c) THEN Panic(st)
    ELSE IF At(toks, st.c) = "CAVOK"
         THEN [st EXCEPT !.r.CAVOK = TRUE, !.c = st.c + 1]
         ELSE LET w == decodeWeatherCondition(st.r, st.c, toks)
              IN  [st EXCEPT !.r = w.r, !.c = w.c]

\* TAFMessage.addTempForecast on a token that matches
addTempForecast(t, tok) ==
    [Temp |-> tok, DateTime |-> tempForecastTime(t, TempForecastDDHH(tok))]

\* for count < len(tokens) && t.addTempForecast(tokens[count]) { count++ }
TafTemperature(st, toks) ==
    IF st.panic THEN st
    ELSE LET k == RunLen(toks, st.c, TempForecastTokens)
         IN  [st EXCEPT
                !.r.TemperatureForecast =
                    @ \o [i \in 1..k |-> addTempForecast(st.r, At(toks, st.c + i - 1))],
                !.c = st.c + k]

decodeTAFIteration(r, c, toks) ==
    NotDecoded(TafTemperature(TafCavokOrWeather(TafWind(Walk(r, c), toks), toks), toks), toks)


-----------------------------------------------------------------------------
(***************************************************************************)
(* parseTrendData: one iteration of the walk over the trend slice toks.    *)
(* ret is set when the walk returns from inside the iteration.             *)
(***************************************************************************)
\* Trend.setProbability
setProbability(tr, tok) ==
    IF tok = "PROB30"
    THEN [trend |-> [tr EXCEPT !.Probability = 30, !.Type = "TEMPO"], ok |-> TRUE]
    ELSE IF tok = "PROB40"
    THEN [trend |-> [tr EXCEPT !.Probability = 40, !.Type = "TEMPO"], ok |-> TRUE]
    ELSE [trend |-> tr, ok |-> FALSE]

\* Trend.setTypeOfTrend: the error of time.Parse is dropped
setTypeOfTrend(tr, tok) ==
    IF tok \in {"TEMPO", "BECMG"}
    THEN [trend |-> [tr EXCEPT !.Type = tok], ok |-> TRUE]
    ELSE IF HasPrefixFM(tok)
    THEN LET f == Rest2(tok)
             p == IF Len(f) = 3 THEN TimeParse(f[1], f[2], f[3]) ELSE TimeParseError
         IN  [trend |-> [tr EXCEPT !.Type = "FM", !.FM = p.t], ok |-> TRUE]
    ELSE [trend |-> tr, ok |-> FALSE]

\* if trend.setProbability(tokens[count]) { count++ }
TrendProbability(st, toks) ==
    LET p == setProbability(st.r, At(toks, st.c))
    IN  IF p.ok THEN [st EXCEPT !.r = p.trend, !.c = st.c + 1] ELSE st

\* if trend.setTypeOfTrend(tokens[count]) { count++ }
TrendType(st, toks) ==
    IF st.panic THEN st
    ELSE IF ~InRange(toks, st.c) THEN Panic(st)
    ELSE LET p == setTypeOfTrend(st.r, At(toks, st.c))
         IN  IF p.ok THEN [st EXCEPT !.r = p.trend, !.c = st.c + 1] ELSE st

RECURSIVE TrendPeriod(_, _)
\* for trend.setPeriodOfChanges(tokens[count]) { count++ }
TrendPeriod(st, toks) ==
    IF st.panic THEN st
    ELSE IF ~InRange(toks, st.c) THEN Panic(st)
    ELSE LET tok == At(toks, st.c)
             p   == setPeriodOfChanges(st.r, Prefix2(tok), Rest2(tok))
         IN  IF p.ok
             THEN TrendPeriod([st EXCEPT !.r = p.trend, !.c = st.c + 1], toks)
             ELSE [st EXCEPT !.log = @ \o p.log]

\* if trend.setDateTime(tokens[count]) { count++ }
TrendDateTime(st, toks) ==
    IF st.panic THEN st
    ELSE IF ~InRange(toks, st.c) THEN Panic(st)
    ELSE LET tok == At(toks, st.c)
         IN  IF tok \notin SpanTokens THEN st
             ELSE LET p == setDateTime(st.r, SpanFrom(tok), SpanTo(tok))
                  IN  [st EXCEPT !.r = p.trend,
                                 !.c = IF p.ok THEN st.c + 1 ELSE st.c,
                                 !.log = @ \o p.log]

\* count += trend.ParseWind(tokens[count])
TrendWind(st, toks) ==
    IF st.panic THEN st
    ELSE IF ~InRange(toks, st.c) THEN Panic(st)
    ELSE LET w == ParseWind(st.r.Wind, <<At(toks, st.c)>>)
         IN  [st EXCEPT !.r.Wind = w.wind, !.c = st.c + w.used]

\* CAVOK ends the walk; else decodeWeatherCondition, and the loop's count++
TrendCavokOrWeather(st, toks) ==
    IF st.panic THEN [ret |-> FALSE] @@ st
    ELSE IF st.c < Len(toks) /\ At(toks, st.c) = "CAVOK"
         THEN [ret |-> TRUE] @@ [st EXCEPT !.r.CAVOK = TRUE]
         ELSE LET w == decodeWeatherCondition(st.r, st.c, toks)
              IN  [ret |-> FALSE] @@ [st EXCEPT !.r = w.r, !.c = w.c + 1]

parseTrendDataIteration(tr, c, toks) ==
    TrendCavokOrWeather(
      TrendWind(
        TrendDateTime(
          TrendPeriod(
            TrendType(
              TrendProbability(Walk(tr, c), toks), toks), toks), toks), toks), toks)

RECURSIVE parseTrendData(_, _, _)
\* parseTrendData from cursor c on: the Trend it returns
parseTrendData(tr, c, toks) ==
    IF c >= Len(toks) THEN tr
    ELSE LET st == parseTrendDataIteration(tr, c, toks)
         IN  IF st.panic \/ st.ret THEN st.r ELSE parseTrendData(st.r, st.c, toks)

-----------------------------------------------------------------------------
(***************************************************************************)
(* parseRemarks: one iteration of the walk over the remarks slice toks.    *)
(***************************************************************************)
\* ^(R\d{2}[LCR]?)/((\d{3})?(VRB)?(\d{2})?(G\d\d)?(MPS|KT))
RwyWindTokens == {"R06/18005MPS"}
\* strings.HasPrefix(token, "QBB")
HasPrefixQBB(tok) == tok \in {"QBB120"}
\* strings.HasPrefix(token, "QFE")
HasPrefixQFE(tok) == tok \in {"QFE767", "QFE7"}
\* len(token)
TokenLen(tok) == IF tok = "QFE7" THEN 4 ELSE IF tok = "QFE767" THEN 6 ELSE 0

\* the runway and the wind group of a wind-on-runway token
RwyWindRunway(tok) == CASE tok = "R06/18005MPS" -> "06"
RwyWindGroup(tok) == CASE tok = "R06/18005MPS" -> "18005MPS"

\* the wind value on a runway
RemarkWind(st, toks) ==
    IF ~(At(toks, st.c) \in RwyWindTokens) THEN st
    ELSE LET tok   == At(toks, st.c)
             input == IF st.c < Len(toks) - 1
                      THEN <<RwyWindGroup(tok), At(toks, st.c + 1)>>
                      ELSE <<RwyWindGroup(tok)>>
             w     == ParseWind(NoWind, input)
         IN  [st EXCEPT !.r.WindOnRWY =
                            Append(@, [Runway |-> RwyWindRunway(tok), Wind |-> w.wind]),
                        !.c = st.c + w.used]

\* the cloud base
RemarkQBB(st, toks) ==
    IF st.c < Len(toks) /\ HasPrefixQBB(At(toks, st.c))
    THEN [st EXCEPT !.r.QBB = At(toks, st.c), !.c = st.c + 1]
    ELSE st

RECURSIVE RemarkObscured(_, _)
\* for count < len(tokens)-1 && tokens[count+1] == "OBSC" { ...; count += 2 }
RemarkObscured(st, toks) ==
    IF st.c < Len(toks) - 1 /\ At(toks, st.c + 1) = "OBSC"
    THEN LET tok == At(toks, st.c)
         IN  RemarkObscured(
               [st EXCEPT !.r.MTOBSC   = IF tok = "MT" THEN TRUE ELSE @,
                          !.r.MASTOBSC = IF tok = "MAST" THEN TRUE ELSE @,
                          !.r.OBSTOBSC = IF tok = "OBST" THEN TRUE ELSE @,
                          !.c = st.c + 2], toks)
    ELSE st

\* RMK.QFE, _ = strconv.Atoi(tokens[count][3:6]); then the loop's count++
RemarkQFE(st, toks) ==
    IF st.c < Len(toks) /\ HasPrefixQFE(At(toks, st.c))
    THEN IF TokenLen(At(toks, st.c)) < 6 THEN Panic(st)
         ELSE [st EXCEPT !.r.QFE = At(toks, st.c), !.c = st.c + 2]
    ELSE [st EXCEPT !.c = st.c + 1]

parseRemarksIteration(r, c, toks) ==
    RemarkQFE(RemarkObscured(RemarkQBB(RemarkWind(Walk(r, c), toks), toks), toks), toks)


-----------------------------------------------------------------------------
(***************************************************************************)
(* The header and the split of a message into body, trends and remarks.    *)
(***************************************************************************)
RECURSIVE Join(_)
\* strings.Join(s, " "): the raw text of a token sequence
Join(s) ==
    IF s = <<>> THEN ""
    ELSE IF Len(s) = 1 THEN s[1]
    ELSE s[1] \o " " \o Join(Tail(s))

\* the token at index i, "" past the end
TokenOr(toks, i) == IF InRange(toks, i) THEN At(toks, i) ELSE ""

\* NewMETAR's headerRx on the raw text: the named captures ("" when a group
\* did not take part) and the count of the captures that are not empty
metarHeader(toks) ==
    LET type == IF TokenOr(toks, 0) \in {"METAR", "SPECI"} /\ Len(toks) > 1 THEN 1 ELSE 0
        cor  == IF TokenOr(toks, type) = "COR" /\ Len(toks) > type + 1 THEN 1 ELSE 0
        i    == type + cor
        ok   == TokenOr(toks, i) \in StationTokens /\ TokenOr(toks, i + 1) \in IssueTimeTokens
        auto == IF TokenOr(toks, i + 2) = "AUTO" THEN 1 ELSE 0
        nil  == IF TokenOr(toks, i + 2 + auto) = "NIL" THEN 1 ELSE 0
    IN  IF ~ok
        THEN [station |-> "", time |-> "", cor |-> FALSE, auto |-> FALSE,
              nil |-> FALSE, count |-> 0]
        ELSE [station |-> At(toks, i), time |-> At(toks, i + 1), cor |-> cor = 1,
              auto |-> auto = 1, nil |-> nil = 1,
              count |-> i + 2 + auto + nil]

\* NewTAF's headerRx on the raw text; position counts the captures that are
\* not empty, "to" left out
tafHeader(toks) ==
    LET taf  == IF TokenOr(toks, 0) = "TAF" /\ Len(toks) > 1 THEN 1 ELSE 0
        cor  == IF TokenOr(toks, taf) = "COR" /\ Len(toks) > taf + 1 THEN 1 ELSE 0
        amd  == IF TokenOr(toks, taf + cor) = "AMD" /\ Len(toks) > taf + cor + 1 THEN 1 ELSE 0
        i    == taf + cor + amd
        ok   == TokenOr(toks, i) \in StationTokens /\ TokenOr(toks, i + 1) \in IssueTimeTokens
        nil  == IF TokenOr(toks, i + 2) = "NIL" THEN 1 ELSE 0
        span == IF TokenOr(toks, i + 2 + nil) \in SpanTokens THEN 1 ELSE 0
        cnl  == IF TokenOr(toks, i + 2 + nil + span) = "CNL" THEN 1 ELSE 0
    IN  IF ~ok
        THEN [station |-> "", time |-> "", cor |-> FALSE, amd |-> FALSE,
              nil |-> FALSE, cnl |-> FALSE, from |-> <<>>, to |-> <<>>, position |-> 0]
        ELSE [station |-> At(toks, i), time |-> At(toks, i + 1), cor |-> cor = 1,
              amd |-> amd = 1, nil |-> nil = 1, cnl |-> cnl = 1,
              from |-> IF span = 1 THEN SpanFrom(At(toks, i + 2 + nil)) ELSE <<>>,
              to   |-> IF span = 1 THEN SpanTo(At(toks, i + 2 + nil)) ELSE <<>>,
              position |-> i + 2 + nil + span + cnl]

\* time.Parse("200601021504Z", CurYearStr+CurMonthStr+headermap["time"]), error dropped
issueTime(time) ==
    IF time = "" THEN ZeroTime
    ELSE LET f == IssueTimeFields(time) IN TimeParse(f[1], f[2], f[3]).t

\* a split that appends each slice it finds, in the order of the scan
appendTrend(sl, trs) == trs \o <<sl>>

\* trends = append([][]string{tokens[i:totalcount]}, trends[0:]...)
prependTrend(sl, trs) == <<sl>> \o trs

RECURSIVE splitRemarks(_, _, _, _, _)
\* NewMETAR's first loop, from index i down to count + 1: the tokens from RMK on
splitRemarks(toks, cnt, i, totalcount, rem) ==
    IF i <= cnt THEN [remarks |-> rem, totalcount |-> totalcount]
    ELSE IF At(toks, i) = "RMK"
         THEN splitRemarks(toks, cnt, i - 1, i, rem \o Slice(toks, i, totalcount))
         ELSE splitRemarks(toks, cnt, i - 1, totalcount, rem)

RECURSIVE splitTrends(_, _, _, _, _)
\* NewMETAR's second loop, from index i down to count + 1: a trend slice
\* from each TEMPO or BECMG to the slice found before
splitTrends(toks, cnt, i, totalcount, trs) ==
    IF i <= cnt THEN [trends |-> trs, totalcount |-> totalcount]
    ELSE IF At(toks, i) \in {"TEMPO", "BECMG"}
         THEN splitTrends(toks, cnt, i - 1, i,
                          prependTrend([from |-> i, to |-> totalcount], trs))
         ELSE splitTrends(toks, cnt, i - 1, totalcount, trs)

\* the start of a trend group in a TAF
isTafTrendStart(tok) ==
    tok \in {"TEMPO", "BECMG"} \/ HasPrefixPROB(tok) \/ HasPrefixFM(tok)

RECURSIVE findTrendsInMessage(_, _, _, _, _)
\* the loop of TAFMessage.findTrendsInMessage, from index i down to
\* startposition + 1
findTrendsInMessage(toks, startposition, i, endposition, trs) ==
    IF i <= startposition THEN [trends |-> trs, endposition |-> endposition]
    ELSE LET hit == isTafTrendStart(At(toks, i))
             j   == IF hit /\ HasPrefixPROB(At(toks, i - 1)) THEN i - 1 ELSE i
             t1  == IF hit THEN prependTrend([from |-> j, to |-> endposition], trs) ELSE trs
             e1  == IF hit THEN j ELSE endposition
             t2  == IF At(toks, j) = "RMK" THEN <<>> ELSE t1
         IN  findTrendsInMessage(toks, startposition, j - 1, e1, t2)


-----------------------------------------------------------------------------
(***************************************************************************)
(* The decode as a state machine.                                          *)
(***************************************************************************)
\* the trend slice that parseTrendData walks
trendSlice == Slice(tokens, trends[ti].from, trends[ti].to)

\* the slice that decodeMetar / decodeTAF walks: tokens[count:totalcount], and
\* without its last token once decodeMetar has found it to be NOSIG
bodySlice == Slice(tokens, body.from, IF m.NOSIG THEN body.to - 1 ELSE body.to)

\* the positions at which a decode ends in a run-time panic
PanicSites ==
    {"panic in setTimeRange", "panic in parseTrendData", "panic in parseRemarks",
     "panic in decodeMetar", "panic in decodeTAF"}

refDate == <<CurYear, CurMonth, CurDay>>
calVars == <<calIn, calOut, procs>>

\* NewMETAR, to the end of the split of the message
NewMETAR ==
    /\ pc = "start" /\ kind = "METAR"
    /\ LET h  == metarHeader(tokens)
           m1 == [NewMessage EXCEPT !.Station = h.station,
                                    !.DateTime = issueTime(h.time),
                                    !.COR = h.cor, !.Auto = h.auto, !.NIL = h.nil]
           r  == splitRemarks(tokens, h.count, Len(tokens) - 1, Len(tokens), <<>>)
           t  == splitTrends(tokens, h.count, r.totalcount - 1, r.totalcount, <<>>)
       IN  /\ m' = m1
           /\ IF m1.Station = "" /\ IsZero(m1.DateTime)
              THEN /\ err' = "not valid message in input"
                   /\ pc' = "done"
                   /\ UNCHANGED <<trends, remarks, body>>
              ELSE IF m1.NIL
              THEN /\ pc' = "done"
                   /\ UNCHANGED <<err, trends, remarks, body>>
              ELSE /\ pc' = "trend"
                   /\ trends' = t.trends
                   /\ remarks' = r.remarks
                   /\ body' = [from |-> h.count, to |-> t.totalcount]
                   /\ err' = err
    /\ UNCHANGED <<refDate, calVars, kind, tokens, ti, trend, rmk, count, itStart, iters, log>>

\* NewTAF, to the end of the scan of findTrendsInMessage
NewTAF ==
    /\ pc = "start" /\ kind = "TAF"
    /\ LET h  == tafHeader(tokens)
           m1 == [NewMessage EXCEPT !.Station = h.station,
                                    !.DateTime = issueTime(h.time),
                                    !.COR = h.cor, !.AMD = h.amd,
                                    !.NIL = h.nil, !.CNL = h.cnl]
           v  == setTimeRange(m1, h.from, h.to)
           m2 == [m1 EXCEPT !.ValidFrom = v.ValidFrom, !.ValidTo = v.ValidTo]
           f  == findTrendsInMessage(tokens, h.position, Len(tokens) - 1, Len(tokens), <<>>)
       IN  IF m1.Station = "" /\ IsZero(m1.DateTime)
           THEN /\ m' = [m1 EXCEPT !.NotDecodedTokens = Append(@, Join(tokens))]
                /\ pc' = "done"
                /\ UNCHANGED <<trends, body>>
           ELSE IF m1.NIL
           THEN /\ m' = m1
                /\ pc' = "done"
                /\ UNCHANGED <<trends, body>>
           ELSE IF v.panic
           THEN /\ m' = m1
                /\ pc' = "panic in setTimeRange"
                /\ UNCHANGED <<trends, body>>
           ELSE IF m1.CNL
           THEN /\ m' = m2
                /\ pc' = "done"
                /\ UNCHANGED <<trends, body>>
           ELSE /\ m' = m2
                /\ pc' = "trend"
                /\ trends' = f.trends
                /\ body' = [from |-> h.position, to |-> f.endposition]
    /\ UNCHANGED <<refDate, calVars, kind, tokens, err, remarks, ti, trend, rmk, count,
                   itStart, iters, log>>

\* one iteration of the loop of parseTrendData on the trend slice ti
TrendIteration ==
    /\ pc = "trend" /\ ti <= Len(trends) /\ count < Len(trendSlice)
    /\ LET st == parseTrendDataIteration(trend, count, trendSlice)
       IN  /\ trend' = st.r
           /\ count' = st.c
           /\ log' = log \o st.log
           /\ pc' = IF st.panic THEN "panic in parseTrendData"
                    ELSE IF st.ret THEN "trendret" ELSE "trend"
    /\ itStart' = count
    /\ iters' = iters + 1
    /\ UNCHANGED <<refDate, calVars, kind, tokens, m, err, trends, remarks, body, ti, rmk>>

\* parseTrendData returns, and its caller appends the trend
TrendReturn ==
    /\ \/ pc = "trendret"
       \/ pc = "trend" /\ ti <= Len(trends) /\ count >= Len(trendSlice)
    /\ m' = [m EXCEPT !.TREND = Append(@, trend)]
    /\ ti' = ti + 1
    /\ trend' = NewTrend
    /\ count' = 0 /\ itStart' = 0 /\ iters' = 0
    /\ pc' = IF kind = "TREND" THEN "done" ELSE "trend"
    /\ UNCHANGED <<refDate, calVars, kind, tokens, err, trends, remarks, body, rmk, log>>

\* the loop over the trend slices ends: parseRemarks in NewMETAR, decodeTAF in NewTAF
TrendsDone ==
    /\ pc = "trend" /\ ti > Len(trends)
    /\ pc' = IF kind = "METAR" THEN "remarks" ELSE "body"
    /\ UNCHANGED <<refDate, calVars, kind, tokens, m, err, trends, remarks, body, ti, trend,
                   rmk, count, itStart, iters, log>>

\* one iteration of the loop of parseRemarks
RemarksIteration ==
    /\ pc = "remarks" /\ count < Len(remarks)
    /\ LET st == parseRemarksIteration(rmk, count, remarks)
       IN  /\ rmk' = st.r
           /\ count' = st.c
           /\ pc' = IF st.panic THEN "panic in parseRemarks" ELSE "remarks"
    /\ itStart' = count
    /\ iters' = iters + 1
    /\ UNCHANGED <<refDate, calVars, kind, tokens, m, err, trends, remarks, body, ti, trend, log>>

\* parseRemarks returns: nil for no tokens, the Remark else
RemarksReturn ==
    /\ pc = "remarks" /\ count >= Len(remarks)
    /\ m' = [m EXCEPT !.Remarks = IF Len(remarks) = 0 THEN Nil ELSE <<rmk>>]
    /\ pc' = IF kind = "REMARKS" THEN "done" ELSE "metar"
    /\ count' = 0 /\ itStart' = 0 /\ iters' = 0
    /\ UNCHANGED <<refDate, calVars, kind, tokens, err, trends, remarks, body, ti, trend, rmk, log>>

\* decodeMetar, to its loop: a last token NOSIG is taken off the slice
decodeMetarEntry ==
    /\ pc = "metar"
    /\ IF ~InRange(bodySlice, Len(bodySlice) - 1)
       THEN pc' = "panic in decodeMetar" /\ UNCHANGED m
       ELSE IF At(bodySlice, Len(bodySlice) - 1) = "NOSIG"
       THEN /\ m' = [m EXCEPT !.NOSIG = TRUE]
            /\ pc' = "body"
       ELSE pc' = "body" /\ UNCHANGED m
    /\ UNCHANGED <<refDate, calVars, kind, tokens, err, trends, remarks, body, ti, trend, rmk,
                   count, itStart, iters, log>>

\* one iteration of the loop of decodeMetar
MetarIteration ==
    /\ pc = "body" /\ kind = "METAR" /\ count < Len(bodySlice)
    /\ LET st == decodeMetarIteration(m, count, bodySlice)
       IN  /\ m' = st.r
           /\ count' = st.c
           /\ pc' = IF st.panic THEN "panic in decodeMetar" ELSE "body"
    /\ itStart' = count
    /\ iters' = iters + 1
    /\ UNCHANGED <<refDate, calVars, kind, tokens, err, trends, remarks, body, ti, trend, rmk, log>>

\* one iteration of the loop of decodeTAF
TafIteration ==
    /\ pc = "body" /\ kind = "TAF" /\ count < Len(bodySlice)
    /\ LET st == decodeTAFIteration(m, count, bodySlice)
       IN  /\ m' = st.r
           /\ count' = st.c
           /\ pc' = IF st.panic THEN "panic in decodeTAF" ELSE "body"
    /\ itStart' = count
    /\ iters' = iters + 1
    /\ UNCHANGED <<refDate, calVars, kind, tokens, err, trends, remarks, body, ti, trend, rmk, log>>

\* the body walk ends, and NewMETAR / NewTAF returns the message
BodyReturn ==
    /\ pc = "body" /\ count >= Len(bodySlice)
    /\ pc' = "done"
    /\ UNCHANGED <<refDate, calVars, kind, tokens, m, err, trends, remarks, body, ti, trend,
                   rmk, count, itStart, iters, log>>

Next ==
    \/ NewMETAR
    \/ NewTAF
    \/ TrendIteration
    \/ TrendReturn
    \/ TrendsDone
    \/ RemarksIteration
    \/ RemarksReturn
    \/ decodeMetarEntry
    \/ MetarIteration
    \/ TafIteration
    \/ BodyReturn

-----------------------------------------------------------------------------
(***************************************************************************)
(* The messages of the model: a header and up to MaxBody tokens after it.  *)
(***************************************************************************)
Vocabulary ==
    {"18005MPS", "CAVOK", "BKN020", "15/10", "Q1013", "TX05/2512Z", "WS", "R03", "NOSIG",
     "TEMPO", "RMK", "QFE767", "OBSC", "XXX"}

MetarHeaders ==
    {<<"UUEE", "011200Z">>, <<"UUEE", "011200Z", "NIL">>, <<"UUEE", "991200Z">>,
     <<"METAR", "COR", "UUEE", "011200Z", "AUTO">>, <<"FOO">>}

TafHeaders ==
    {<<"UUEE", "011200Z", "0112/0212">>, <<"UUEE", "011200Z", "NIL">>,
     <<"UUEE", "011200Z", "0112/0212", "CNL">>, <<"UUEE", "011200Z", "CNL">>,
     <<"UUEE", "011200Z">>, <<"UUEE", "991200Z", "0112/0212">>,
     <<"TAF", "COR", "AMD", "UUEE", "011200Z", "0112/0212">>, <<"FOO">>}

SeqsUpTo(S, n) == UNION {[1..k -> S] : k \in 0..n}

\* the reference date of the tests of the package: 2023-05-31
RefDate2023 ==
    /\ CurYear = 2023 /\ CurMonth = 5 /\ CurDay = 31

\* nothing decoded yet
Fresh ==
    /\ m = NewMessage
    /\ err = "nil"
    /\ remarks = <<>> /\ body = [from |-> 0, to |-> 0]
    /\ ti = 1 /\ trend = NewTrend /\ rmk = NewRemark
    /\ count = 0 /\ itStart = 0 /\ iters = 0
    /\ log = <<>>

NoCal == [op |-> "", from |-> ZeroTime, to |-> ZeroTime, ok |-> TRUE]

\* the state before a decode of the message toks by entry point k
Start(k, toks) ==
    /\ RefDate2023
    /\ kind = k
    /\ tokens = toks
    /\ pc = "start"
    /\ trends = <<>>
    /\ Fresh
    /\ calIn = <<>> /\ calOut = NoCal /\ procs = <<>>

Init ==
    \E b \in SeqsUpTo(Vocabulary, MaxBody) :
        \/ \E h \in MetarHeaders : Start("METAR", h \o b)
        \/ \E h \in TafHeaders : Start("TAF", h \o b)

Spec == Init /\ [][Next]_vars


-----------------------------------------------------------------------------
(***************************************************************************)
(* The section split on longer messages: a plain header and up to MaxSplit *)
(* tokens after it.                                                        *)
(***************************************************************************)
MaxSplit == 5

SplitVocabulary == {"BKN020", "TEMPO", "PROB30", "RMK"}

InitSplit ==
    \E b \in SeqsUpTo(SplitVocabulary, MaxSplit) :
        \/ Start("METAR", <<"UUEE", "011200Z">> \o b)
        \/ Start("TAF", <<"UUEE", "011200Z", "0112/0212">> \o b)

SpecSplit == InitSplit /\ [][Next]_vars

-----------------------------------------------------------------------------
(***************************************************************************)
(* parseTrendData called on a trend slice, as the tests of the package do. *)
(***************************************************************************)
MaxTrend == 4

TrendVocabulary ==
    {"BECMG", "PROB30", "2526/2526", "2509/2515", "AT220O", "TL2400",
     "0500", "FG", "XXX", "CAVOK"}

InitTrend ==
    \E b \in SeqsUpTo(TrendVocabulary, MaxTrend) :
        /\ RefDate2023
        /\ kind = "TREND"
        /\ tokens = b
        /\ pc = "trend"
        /\ trends = <<[from |-> 0, to |-> Len(b)]>>
        /\ Fresh
        /\ calIn = <<>> /\ calOut = NoCal /\ procs = <<>>

NextTrend ==
    \/ TrendIteration
    \/ TrendReturn

SpecTrend == InitTrend /\ [][NextTrend]_vars

-----------------------------------------------------------------------------
(***************************************************************************)
(* The calendar resolver on its own: a day + hour field DDHH of a TAF      *)
(* issued on day calIn.issue, under a reference month of every length.     *)
(***************************************************************************)
\* year and month of the reference date
RefMonths == {<<2023, 1>>, <<2023, 2>>, <<2024, 2>>, <<2023, 4>>, <<2023, 12>>}

IssueDays == {1, 2, 15, 28, 29, 30, 31}

StatedHours == {0, 12, 24}

InitCal ==
    \E ref \in RefMonths, last \in BOOLEAN, D \in IssueDays, d \in 1..31, h \in StatedHours :
        /\ CurYear = ref[1] /\ CurMonth = ref[2]
        /\ CurDay = IF last THEN DaysIn(ref[1], ref[2]) ELSE 1
        /\ D <= DaysIn(ref[1], ref[2])
        /\ kind = "CAL"
        /\ tokens = <<>>
        /\ pc = "start"
        /\ trends = <<>>
        /\ m = [NewMessage EXCEPT
                  !.Station = "UUEE",
                  !.DateTime = [y |-> ref[1], mo |-> ref[2], d |-> D, h |-> 12, mi |-> 0]]
        /\ err = "nil"
        /\ remarks = <<>> /\ body = [from |-> 0, to |-> 0]
        /\ ti = 1 /\ trend = NewTrend /\ rmk = NewRemark
        /\ count = 0 /\ itStart = 0 /\ iters = 0
        /\ log = <<>>
        /\ calIn = [issue |-> D, day |-> d, hour |-> h]
        /\ calOut = NoCal
        /\ procs = <<>>

calFrame == <<refDate, kind, tokens, err, trends, remarks, body, ti, rmk, count, itStart,
              iters, calIn, procs>>

\* setTimeRange on the header span DDHH/DDHH
CalSetTimeRange ==
    /\ pc = "start" /\ kind = "CAL"
    /\ LET v == setTimeRange(m, <<calIn.day, calIn.hour>>, <<calIn.day, calIn.hour>>)
       IN  /\ m' = [m EXCEPT !.ValidFrom = v.ValidFrom, !.ValidTo = v.ValidTo]
           /\ calOut' = [op |-> "setTimeRange", from |-> v.ValidFrom, to |-> v.ValidTo,
                         ok |-> TRUE]
    /\ pc' = "done"
    /\ UNCHANGED <<calFrame, trend, log>>

\* addTempForecast on a token T(X|N)tt/DDHHZ
CalAddTempForecast ==
    /\ pc = "start" /\ kind = "CAL"
    /\ LET dt == tempForecastTime(m, <<calIn.day, calIn.hour>>)
       IN  /\ m' = [m EXCEPT !.TemperatureForecast =
                                 Append(@, [Temp |-> "TX", DateTime |-> dt])]
           /\ calOut' = [op |-> "addTempForecast", from |-> dt, to |-> dt, ok |-> TRUE]
    /\ pc' = "done"
    /\ UNCHANGED <<calFrame, trend, log>>

\* Trend.setDateTime on a token DDHH/DDHH of a trend of the TAF
CalSetDateTime ==
    /\ pc = "start" /\ kind = "CAL"
    /\ LET p == setDateTime(trend, <<calIn.day, calIn.hour>>, <<calIn.day, calIn.hour>>)
       IN  /\ trend' = p.trend
           /\ log' = log \o p.log
           /\ calOut' = [op |-> "setDateTime", from |-> p.trend.FM, to |-> p.trend.TL,
                         ok |-> p.ok]
    /\ pc' = "done"
    /\ UNCHANGED <<calFrame, m>>

\* Trend.setPeriodOfChanges on a token TLhh00
CalSetPeriodOfChanges ==
    /\ pc = "start" /\ kind = "CAL"
    /\ LET p == setPeriodOfChanges(trend, "TL", <<calIn.hour, 0>>)
       IN  /\ trend' = p.trend
           /\ log' = log \o p.log
           /\ calOut' = [op |-> "setPeriodOfChanges", from |-> p.trend.TL,
                         to |-> p.trend.TL, ok |-> p.ok]
    /\ pc' = "done"
    /\ UNCHANGED <<calFrame, m>>

\* Trend.setPeriodOfChanges on a token AThh00 or FMhh00 of a trend of the report
CalSetTimeOfChange ==
    /\ pc = "start" /\ kind = "CAL"
    /\ \E pfx \in {"AT", "FM"} :
        LET p == setPeriodOfChanges(trend, pfx, <<calIn.hour, 0>>)
            t == IF pfx = "AT" THEN p.trend.AT ELSE p.trend.FM
        IN  /\ trend' = p.trend
            /\ log' = log \o p.log
            /\ calOut' = [op |-> "setPeriodOfChanges: " \o pfx, from |-> t, to |-> t,
                          ok |-> p.ok]
    /\ pc' = "done"
    /\ UNCHANGED <<calFrame, m>>

NextCal ==
    \/ CalSetTimeRange
    \/ CalAddTempForecast
    \/ CalSetDateTime
    \/ CalSetPeriodOfChanges
    \/ CalSetTimeOfChange

SpecCal == InitCal /\ [][NextCal]_vars


-----------------------------------------------------------------------------
(***************************************************************************)
(* The sub-decoders on their own: parseTrendData on a trend slice, and     *)
(* parseRemarks on a remarks slice, which starts with the RMK keyword and  *)
(* has up to MaxRemarks tokens after it.                                   *)
(***************************************************************************)
MaxRemarks == 3

RemarksVocabulary ==
    {"R06/18005MPS", "280V350", "QBB120", "MT", "OBSC", "QFE767", "QFE7", "XXX"}

InitRemarks ==
    \E b \in SeqsUpTo(RemarksVocabulary, MaxRemarks) :
        /\ RefDate2023
        /\ kind = "REMARKS"
        /\ tokens = <<"RMK">> \o b
        /\ pc = "remarks"
        /\ trends = <<>>
        /\ m = NewMessage
        /\ err = "nil"
        /\ remarks = <<"RMK">> \o b
        /\ body = [from |-> 0, to |-> 0]
        /\ ti = 1 /\ trend = NewTrend /\ rmk = NewRemark
        /\ count = 0 /\ itStart = 0 /\ iters = 0
        /\ log = <<>>
        /\ calIn = <<>> /\ calOut = NoCal /\ procs = <<>>

InitSub == InitTrend \/ InitRemarks

NextSub ==
    \/ TrendIteration
    \/ TrendReturn
    \/ RemarksIteration
    \/ RemarksReturn

SpecSub == InitSub /\ [][NextSub]_vars

-----------------------------------------------------------------------------
(***************************************************************************)
(* The wind group of each walk on its own: the step of decodeMetar, of     *)
(* decodeTAF and of parseTrendData that calls ParseWind, at cursor count   *)
(* of a slice of up to MaxWind tokens.                                     *)
(***************************************************************************)
MaxWind == 3

WindVocabulary == {"18005MPS", "280V350", "BKN020", "XXX"}

\* the walks that have a wind group
WindWalks == {"decodeMetar", "decodeTAF", "parseTrendData"}

\* the wind of the record before the walk: none, or one decoded before
WindsBefore == {NoWind, [group |-> "27003MPS", variable |-> "240V300"]}

InitWind ==
    \E s \in SeqsUpTo(WindVocabulary, MaxWind), c \in 0..(MaxWind - 1),
       k \in WindWalks, w \in WindsBefore :
        /\ c < Len(s)
        /\ RefDate2023
        /\ kind = k
        /\ tokens = s
        /\ pc = "wind"
        /\ trends = <<>>
        /\ m = [NewMessage EXCEPT !.Wind = w]
        /\ trend = [NewTrend EXCEPT !.Wind = w]
        /\ err = "nil"
        /\ remarks = <<>> /\ body = [from |-> 0, to |-> Len(s)]
        /\ ti = 1 /\ rmk = NewRemark
        /\ count = c /\ itStart = c /\ iters = 0
        /\ log = <<>>
        /\ calIn = <<>> /\ calOut = NoCal /\ procs = <<>>

windFrame == <<refDate, calVars, kind, tokens, err, trends, remarks, body, ti, rmk,
               itStart, iters, log>>

\* decodeMetar: count += m.ParseWind(strings.Join(tokens[count:], " "))
WindInMetar ==
    /\ pc = "wind" /\ kind = "decodeMetar"
    /\ LET st == MetarWind(Walk(m, count), tokens)
       IN  m' = st.r /\ count' = st.c
    /\ pc' = "done"
    /\ UNCHANGED <<windFrame, trend>>

\* decodeTAF: count += t.ParseWind(tokens[count])
WindInTaf ==
    /\ pc = "wind" /\ kind = "decodeTAF"
    /\ LET st == TafWind(Walk(m, count), tokens)
       IN  m' = st.r /\ count' = st.c
    /\ pc' = "done"
    /\ UNCHANGED <<windFrame, trend>>

\* parseTrendData: count += trend.ParseWind(tokens[count])
WindInTrend ==
    /\ pc = "wind" /\ kind = "parseTrendData"
    /\ LET st == TrendWind(Walk(trend, count), tokens)
       IN  trend' = st.r /\ count' = st.c
    /\ pc' = "done"
    /\ UNCHANGED <<windFrame, m>>

NextWind ==
    \/ WindInMetar
    \/ WindInTaf
    \/ WindInTrend

SpecWind == InitWind /\ [][NextWind]_vars

-----------------------------------------------------------------------------
(***************************************************************************)
(* A decode as a function of the message and the reference date: what      *)
(* NewMETAR / NewTAF gives when nothing else runs.  The outcome is the     *)
(* position the decode ends at ("done" or a panic), the record and the     *)
(* error.                                                                  *)
(***************************************************************************)
RECURSIVE parseTrendDataPanics(_, _, _)
\* parseTrendData from cursor c on reads outside its slice
parseTrendDataPanics(tr, c, toks) ==
    IF c >= Len(toks) THEN FALSE
    ELSE LET st == parseTrendDataIteration(tr, c, toks)
         IN  IF st.panic THEN TRUE
             ELSE IF st.ret THEN FALSE
             ELSE parseTrendDataPanics(st.r, st.c, toks)

RECURSIVE trendsOf(_, _, _, _)
\* for _, trendstr := range trends { appendTrend(trendstr) }, from slice i on
trendsOf(r, toks, trs, i) ==
    IF i > Len(trs) THEN [r |-> r, panic |-> FALSE]
    ELSE LET sl == Slice(toks, trs[i].from, trs[i].to)
         IN  IF parseTrendDataPanics(NewTrend, 0, sl) THEN [r |-> r, panic |-> TRUE]
             ELSE trendsOf([r EXCEPT !.TREND = Append(@, parseTrendData(NewTrend, 0, sl))],
                           toks, trs, i + 1)

RECURSIVE remarksWalk(_, _, _)
\* the loop of parseRemarks from cursor c on
remarksWalk(r, c, toks) ==
    IF c >= Len(toks) THEN [r |-> r, panic |-> FALSE]
    ELSE LET st == parseRemarksIteration(r, c, toks)
         IN  IF st.panic THEN [r |-> st.r, panic |-> TRUE]
             ELSE remarksWalk(st.r, st.c, toks)

\* parseRemarks: nil for no tokens
parseRemarks(toks) ==
    IF toks = <<>> THEN [r |-> Nil, panic |-> FALSE]
    ELSE LET w == remarksWalk(NewRemark, 0, toks)
         IN  [r |-> <<w.r>>, panic |-> w.panic]

RECURSIVE bodyWalk(_, _, _, _)
\* the loop of decodeMetar (k = "METAR") or of decodeTAF from cursor c on
bodyWalk(k, r, c, toks) ==
    IF c >= Len(toks) THEN [r |-> r, panic |-> FALSE]
    ELSE LET st == IF k = "METAR" THEN decodeMetarIteration(r, c, toks)
                   ELSE decodeTAFIteration(r, c, toks)
         IN  IF st.panic THEN [r |-> st.r, panic |-> TRUE]
             ELSE bodyWalk(k, st.r, st.c, toks)

\* decodeMetar: a last token NOSIG is taken off the slice
decodeMetar(r, toks) ==
    IF toks = <<>> THEN [r |-> r, panic |-> TRUE]
    ELSE IF toks[Len(toks)] = "NOSIG"
    THEN bodyWalk("METAR", [r EXCEPT !.NOSIG = TRUE], 0, Slice(toks, 0, Len(toks) - 1))
    ELSE bodyWalk("METAR", r, 0, toks)

\* the outcome of a decode
Outcome(p, r, e) == [pc |-> p, m |-> r, err |-> e]

\* NewMETAR(inputtext)
NewMETARAlone(toks) ==
    LET h  == metarHeader(toks)
        m1 == [NewMessage EXCEPT !.Station = h.station,
                                 !.DateTime = issueTime(h.time),
                                 !.COR = h.cor, !.Auto = h.auto, !.NIL = h.nil]
        r  == splitRemarks(toks, h.count, Len(toks) - 1, Len(toks), <<>>)
        t  == splitTrends(toks, h.count, r.totalcount - 1, r.totalcount, <<>>)
        tr == trendsOf(m1, toks, t.trends, 1)
        rk == parseRemarks(r.remarks)
        b  == decodeMetar([tr.r EXCEPT !.Remarks = rk.r], Slice(toks, h.count, t.totalcount))
    IN  IF m1.Station = "" /\ IsZero(m1.DateTime)
        THEN Outcome("done", m1, "not valid message in input")
        ELSE IF m1.NIL THEN Outcome("done", m1, "nil")
        ELSE IF tr.panic THEN Outcome("panic in parseTrendData", tr.r, "nil")
        ELSE IF rk.panic THEN Outcome("panic in parseRemarks", tr.r, "nil")
        ELSE IF b.panic THEN Outcome("panic in decodeMetar", b.r, "nil")
        ELSE Outcome("done", b.r, "nil")

\* NewTAF(inputtext)
NewTAFAlone(toks) ==
    LET h  == tafHeader(toks)
        m1 == [NewMessage EXCEPT !.Station = h.station,
                                 !.DateTime = issueTime(h.time),
                                 !.COR = h.cor, !.AMD = h.amd,
                                 !.NIL = h.nil, !.CNL = h.cnl]
        v  == setTimeRange(m1, h.from, h.to)
        m2 == [m1 EXCEPT !.ValidFrom = v.ValidFrom, !.ValidTo = v.ValidTo]
        f  == findTrendsInMessage(toks, h.position, Len(toks) - 1, Len(toks), <<>>)
        tr == trendsOf(m2, toks, f.trends, 1)
        b  == bodyWalk("TAF", tr.r, 0, Slice(toks, h.position, f.endposition))
    IN  IF m1.Station = "" /\ IsZero(m1.DateTime)
        THEN Outcome("done", [m1 EXCEPT !.NotDecodedTokens = Append(@, Join(toks))], "nil")
        ELSE IF m1.NIL THEN Outcome("done", m1, "nil")
        ELSE IF v.panic THEN Outcome("panic in setTimeRange", m1, "nil")
        ELSE IF m1.CNL THEN Outcome("done", m2, "nil")
        ELSE IF tr.panic THEN Outcome("panic in parseTrendData", tr.r, "nil")
        ELSE IF b.panic THEN Outcome("panic in decodeTAF", b.r, "nil")
        ELSE Outcome("done", b.r, "nil")

\* the decode of the message toks by entry point k, run alone
Alone(k, toks) == IF k = "METAR" THEN NewMETARAlone(toks) ELSE NewTAFAlone(toks)

-----------------------------------------------------------------------------
(***************************************************************************)
(* Concurrent decodes: up to MaxProcs goroutines, each in one call of      *)
(* NewMETAR or NewTAF.  The variables of a decode are the locals of the    *)
(* goroutine that runs; procs holds the locals of the goroutines that wait.*)
(* The package variables CurYearStr, CurMonthStr, CurDayStr and the        *)
(* standard logger are the state all goroutines share.                     *)
(***************************************************************************)
MaxProcs == 2

\* the locals of the goroutine that runs
Locals ==
    [kind |-> kind, tokens |-> tokens, pc |-> pc, m |-> m, err |-> err,
     trends |-> trends, remarks |-> remarks, body |-> body, ti |-> ti,
     trend |-> trend, rmk |-> rmk, count |-> count, itStart |-> itStart,
     iters |-> iters]

\* the locals of a call that has not started: m := &MetarMessage{RawData: inputtext}
FreshLocals(k, toks) ==
    [kind |-> k, tokens |-> toks, pc |-> "start", m |-> NewMessage, err |-> "nil",
     trends |-> <<>>, remarks |-> <<>>, body |-> [from |-> 0, to |-> 0], ti |-> 1,
     trend |-> NewTrend, rmk |-> NewRemark, count |-> 0, itStart |-> 0, iters |-> 0]

\* a decoder that keeps the Trend under construction in a package variable:
\* a goroutine that runs again finds the Trend the last one left
sharedTrendLocals(ctx) == [ctx EXCEPT !.trend = trend]

\* what a goroutine finds when it runs again: every variable of the decode is
\* allocated by the call (m := &MetarMessage{}, trend = &Trend{}, RMK := &Remark{})
goroutineLocals(ctx) == ctx

\* the decode has ended, by a return or by a panic
Ended(ctx) == ctx.pc = "done" \/ ctx.pc \in PanicSites

\* the scheduler takes the running goroutine off and runs goroutine i
Switch(i) ==
    /\ i \in 1..Len(procs)
    /\ ~Ended(procs[i])
    /\ LET g == goroutineLocals(procs[i])
       IN  /\ kind' = g.kind /\ tokens' = g.tokens /\ pc' = g.pc
           /\ m' = g.m /\ err' = g.err
           /\ trends' = g.trends /\ remarks' = g.remarks /\ body' = g.body
           /\ ti' = g.ti /\ trend' = g.trend /\ rmk' = g.rmk
           /\ count' = g.count /\ itStart' = g.itStart /\ iters' = g.iters
    /\ procs' = [procs EXCEPT ![i] = Locals]
    /\ UNCHANGED <<refDate, log, calIn, calOut>>

\* the messages of the goroutines
ConcMessages ==
    {[kind |-> "METAR",
      tokens |-> <<"UUEE", "011200Z", "BKN020", "Q1013", "TEMPO", "AT220O", "BKN020",
                   "BECMG", "AT220O", "RMK", "QFE767">>],
     [kind |-> "TAF",
      tokens |-> <<"UUEE", "011200Z", "0112/0212", "BKN020", "BECMG", "2526/2526">>],
     [kind |-> "TAF",
      tokens |-> <<"UUEE", "011200Z", "0112/0212", "18005MPS", "CAVOK", "TX05/2512Z",
                   "PROB30", "TEMPO", "2509/2515", "BKN020">>],
     [kind |-> "TAF", tokens |-> <<"UUEE", "011200Z", "BKN020">>],
     [kind |-> "METAR", tokens |-> <<"FOO">>]}

InitConc ==
    \E n \in 1..MaxProcs :
        \E f \in [1..n -> ConcMessages] :
            /\ RefDate2023
            /\ kind = f[1].kind
            /\ tokens = f[1].tokens
            /\ pc = "start"
            /\ trends = <<>>
            /\ Fresh
            /\ calIn = <<>> /\ calOut = NoCal
            /\ procs = [i \in 1..(n - 1) |-> FreshLocals(f[i + 1].kind, f[i + 1].tokens)]

NextConc ==
    \/ Next
    \/ \E i \in 1..MaxProcs : Switch(i)

SpecConc == InitConc /\ [][NextConc]_vars

-----------------------------------------------------------------------------
(***************************************************************************)
(* Properties of the decode.                                               *)
(***************************************************************************)
Message == kind \in {"METAR", "TAF"}

\* the decode has ended, by a return or by a panic
Final == pc = "done" \/ pc \in PanicSites

\* the header expression matches neither a station nor an issue time
HeaderUnmatched ==
    IF kind = "METAR" THEN metarHeader(tokens).station = ""
    ELSE tafHeader(tokens).station = ""

\* the record is the minimal one: nothing but the raw text in NotDecodedTokens
MinimalRecord == m = [NewMessage EXCEPT !.NotDecodedTokens = <<Join(tokens)>>]

\* C1: for an input whose header matches neither station nor issue time,
\* NewMETAR returns an error and NewTAF none, and both return the minimal
\* record: NotDecodedTokens is exactly the raw text and no other field is set.
InvalidHeaderGivesMinimalRecord ==
    (pc = "done" /\ Message /\ HeaderUnmatched) =>
        /\ MinimalRecord
        /\ (kind = "METAR") => (err # "nil")
        /\ (kind = "TAF") => (err = "nil")

\* the decode is flagged invalid: NewMETAR's error, NewTAF's minimal record
FlaggedInvalid == IF kind = "METAR" THEN err # "nil" ELSE MinimalRecord

\* C2: a decode is either flagged invalid or its record has a station of 4
\* characters and an issue instant that is not the zero instant.
ValidRecordOrFlaggedInvalid ==
    (pc = "done" /\ Message) =>
        \/ FlaggedInvalid
        \/ (m.Station \in StationTokens /\ ~IsZero(m.DateTime))

\* the indexes of tokens that lie in the body slice or in a trend slice
InSlices ==
    {i \in 0..(Len(tokens) - 1) :
        \/ body.from <= i /\ i < body.to
        \/ \E k \in 1..Len(trends) : trends[k].from <= i /\ i < trends[k].to}

Occurrences(s, tok) == Cardinality({i \in 1..Len(s) : s[i] = tok})

\* C3: no token of the body slice or of a trend slice is dropped: a token that
\* matches no group ("XXX") is in NotDecodedTokens once for each time it
\* occurs in these slices.
TokenConservation ==
    (pc = "done" /\ Message) =>
        Occurrences(m.NotDecodedTokens, "XXX")
            = Cardinality({i \in InSlices : At(tokens, i) = "XXX"})

\* C4: decodeMetar and decodeTAF never abort: no read of the token at the
\* cursor is outside the body slice.
BodyWalkNeverAborts == pc \notin {"panic in decodeMetar", "panic in decodeTAF"}

\* the slice of the walk that is running, or that ran last
WalkSlice ==
    IF pc \in {"trend", "trendret", "panic in parseTrendData"}
    THEN (IF ti <= Len(trends) THEN trendSlice ELSE <<>>)
    ELSE IF pc \in {"remarks", "panic in parseRemarks"} THEN remarks
    ELSE IF pc \in {"body", "done", "panic in decodeMetar", "panic in decodeTAF"}
    THEN bodySlice
    ELSE <<>>

\* C5: in every loop (body walk of decodeMetar and of decodeTAF, trend walk,
\* remarks walk, the loop of appendWindShears) the cursor at the end of an
\* iteration is strictly greater than at its start, and a walk starts at most
\* as many iterations as its slice has tokens.
CursorAdvances ==
    /\ iters <= Len(WalkSlice)
    /\ (iters > 0 /\ pc \notin PanicSites /\ pc # "trendret") => (count > itStart)
    /\ \A c \in 0..Len(bodySlice) :
          (windShearMatch(bodySlice, c) > 0) =>
              /\ windShearStep(bodySlice, c).used > 0
              /\ c + windShearStep(bodySlice, c).used <= Len(bodySlice)

\* a METAR whose body took two iterations, one of them with a wind shear group
CursorAdvancesWitness ==
    /\ kind = "METAR" /\ pc = "done"
    /\ iters = 2 /\ count = Len(bodySlice)
    /\ m.WindShear # <<>>

\* the record with the fields of the header put back to their defaults
WithoutHeader ==
    [m EXCEPT !.Station = "", !.DateTime = ZeroTime, !.COR = FALSE, !.Auto = FALSE,
              !.AMD = FALSE, !.NIL = FALSE, !.CNL = FALSE,
              !.ValidFrom = ZeroTime, !.ValidTo = ZeroTime]

\* C6: with the NIL flag NewMETAR and NewTAF return right after the header:
\* every body field at its default, no trend, no remarks, nothing not decoded,
\* zero validity instants.  With the CNL flag NewTAF computes ValidFrom and
\* ValidTo from the span of the header and returns, every body field at its
\* default and no trend, whatever tokens follow.
EarlyStopOnHeaderFlags ==
    (Final /\ Message /\ (m.NIL \/ m.CNL)) =>
        /\ pc = "done"
        /\ WithoutHeader = NewMessage
        /\ m.NIL => (IsZero(m.ValidFrom) /\ IsZero(m.ValidTo))
        /\ (~m.NIL /\ m.CNL) =>
              LET h == tafHeader(tokens)
                  v == setTimeRange(m, h.from, h.to)
              IN  ~v.panic /\ m.ValidFrom = v.ValidFrom /\ m.ValidTo = v.ValidTo

\* the month after the reference month
NextMonth == IF CurMonth = 12 THEN <<CurYear + 1, 1>> ELSE <<CurYear, CurMonth + 1>>

\* the month of the stated day of a TAF: the month after the reference month
\* when the stated day is less than the issue day
StatedMonth == IF calIn.day < calIn.issue THEN NextMonth ELSE <<CurYear, CurMonth>>

\* the stated day is a day of its month
StatedDayExists == calIn.day <= DaysIn(StatedMonth[1], StatedMonth[2])

\* 00:00 of the day after day d of month ym
DayAfter(ym, d) == AddHour([y |-> ym[1], mo |-> ym[2], d |-> d, h |-> 23, mi |-> 0])

\* C7: a day + hour field whose hour is 24 resolves to 00:00 of the calendar
\* day after the stated day: ValidFrom and ValidTo, the from and till of a
\* trend window, the time of a temperature forecast, and TL2400 (whose day is
\* the reference day).
Hour24Rule ==
    (kind = "CAL" /\ pc = "done" /\ calIn.hour = 24) =>
        IF calOut.op = "setPeriodOfChanges"
        THEN calOut.ok /\ calOut.to = DayAfter(<<CurYear, CurMonth>>, CurDay)
        ELSE StatedDayExists =>
                /\ calOut.from = DayAfter(StatedMonth, calIn.day)
                /\ calOut.to = DayAfter(StatedMonth, calIn.day)

\* C8: for a TAF issued on day D, the instant of a day + hour field (ValidFrom,
\* ValidTo, the time of a temperature forecast, the from and till of a trend
\* window) is in the month after the reference month when the stated day is
\* less than D, and in the reference month when it is at least D.
MonthRollover ==
    (/\ kind = "CAL" /\ pc = "done" /\ calIn.hour # 24
     /\ calOut.op \in {"setTimeRange", "addTempForecast", "setDateTime"}
     /\ StatedDayExists) =>
        LET stated == [y |-> StatedMonth[1], mo |-> StatedMonth[2], d |-> calIn.day,
                       h |-> calIn.hour, mi |-> 0]
        IN  calOut.from = stated /\ calOut.to = stated

\* the error list of a record: the record of the code has none
RecordedErrors(r) == IF "ParsingErrors" \in DOMAIN r THEN r.ParsingErrors ELSE <<>>

\* C9: each instant of a trend that fails to resolve appends one error to the
\* error list of the Trend, in message order: the list holds what the walk
\* has reported, e.g. two errors for BECMG 2526/2526 0500 FG.
CalendarErrorsRecorded ==
    (kind = "TREND" /\ pc = "done") => (RecordedErrors(m.TREND[1]) = log)

\* a token at which the scan of the entry point starts a trend group
IsMarker(tok) ==
    IF kind = "METAR" THEN tok \in {"TEMPO", "BECMG"} ELSE isTafTrendStart(tok)

\* the tokens of trend slice k
TrendTokens(k) == Slice(tokens, trends[k].from, trends[k].to)

\* C10: the trend slices are in left-to-right message order, each starts at a
\* trend marker and holds no other one (but the marker a PROB start modifies),
\* slice k ends where slice k + 1 starts, the body slice ends where the first
\* trend slice starts and holds no marker after the cursor, and TREND holds
\* one Trend per slice, in the order of the slices.
SplitterOrdering ==
    (Message /\ pc # "start") =>
        /\ \A k \in 1..Len(trends) :
              /\ body.from <= trends[k].from
              /\ trends[k].from < trends[k].to
              /\ trends[k].to <= Len(tokens)
              /\ IsMarker(At(tokens, trends[k].from))
              /\ \A i \in (trends[k].from + 1)..(trends[k].to - 1) :
                    IsMarker(At(tokens, i)) =>
                        /\ i = trends[k].from + 1
                        /\ HasPrefixPROB(At(tokens, trends[k].from))
        /\ \A k \in 1..(Len(trends) - 1) : trends[k].to = trends[k + 1].from
        /\ (trends # <<>>) => (body.to = trends[1].from)
        /\ \A i \in (body.from + 1)..(body.to - 1) : ~IsMarker(At(tokens, i))
        /\ (pc \in {"trend", "trendret"}) => (Len(m.TREND) = ti - 1)
        /\ (pc \notin {"trend", "trendret", "panic in parseTrendData"}) =>
              (Len(m.TREND) = Len(trends))
        /\ \A k \in 1..Len(m.TREND) :
              m.TREND[k] = parseTrendData(NewTrend, 0, TrendTokens(k))

\* a message with two trend groups, both decoded
SplitterOrderingWitness ==
    /\ Message /\ pc = "done"
    /\ Len(trends) = 2 /\ Len(m.TREND) = 2
    /\ m.TREND[1] # m.TREND[2]


-----------------------------------------------------------------------------
(***************************************************************************)
(* Properties of the sections: remarks, probability, wind, CAVOK.          *)
(***************************************************************************)
Min(S) == CHOOSE x \in S : \A y \in S : x <= y

\* the body start cursor: the count of the header captures that are not empty
Cursor == IF kind = "METAR" THEN metarHeader(tokens).count ELSE tafHeader(tokens).position

\* the entry point has split the message into body, trends and remarks
SplitRan ==
    /\ Message
    /\ pc \notin {"start", "panic in setTimeRange"}
    /\ ~(m.Station = "" /\ IsZero(m.DateTime))
    /\ ~m.NIL /\ ~m.CNL

\* the index of the first RMK at or after the cursor, Len(tokens) without one
FirstRMK ==
    LET S == {i \in Cursor..(Len(tokens) - 1) : At(tokens, i) = "RMK"}
    IN  IF S = {} THEN Len(tokens) ELSE Min(S)

\* the trend markers the scan can meet between the cursor and the first RMK
MarkersBeforeRMK ==
    {i \in (Cursor + 1)..(FirstRMK - 1) : IsMarker(At(tokens, i))}

\* where the trend group of the marker at index i starts: at the PROB token
\* before it when the scan of NewTAF finds one
TrendStart(i) ==
    IF kind = "TAF" /\ HasPrefixPROB(At(tokens, i - 1)) THEN i - 1 ELSE i

\* C11: no token at or after the first RMK is in the body slice or in a trend
\* slice, so a trend keyword after RMK makes no Trend, and the body ends at
\* the earliest trend start before RMK, else at RMK, else at the message end.
RMKIsolation ==
    SplitRan =>
        /\ \A i \in InSlices : i < FirstRMK
        /\ Len(m.TREND) <= Cardinality(MarkersBeforeRMK)
        /\ body.to = IF MarkersBeforeRMK # {}
                     THEN Min({TrendStart(i) : i \in MarkersBeforeRMK})
                     ELSE FirstRMK

\* the PROB tokens after the header and before the remarks that a TEMPO follows
ProbPairs ==
    {i \in Cursor..(FirstRMK - 2) :
        HasPrefixPROB(At(tokens, i)) /\ At(tokens, i + 1) = "TEMPO"}

\* the trend slices that hold the token at index i
SlicesWith(i) == {k \in 1..Len(trends) : trends[k].from <= i /\ i < trends[k].to}

\* the probability a PROB token states
StatedProbability(tok) ==
    IF tok = "PROB30" THEN 30 ELSE IF tok = "PROB40" THEN 40 ELSE 0

\* C12: a PROB token right before a TEMPO, after the header, starts the one
\* trend slice of the pair: the Trend has type TEMPO and the probability of the
\* PROB token (30 or 40), and the PROB token is neither in the body slice nor
\* in NotDecodedTokens.
ProbAttachesToTempo ==
    (SplitRan /\ pc = "done") =>
        \A i \in ProbPairs :
            /\ \E k \in 1..Len(trends) :
                  /\ SlicesWith(i) = {k} /\ SlicesWith(i + 1) = {k}
                  /\ trends[k].from = i
                  /\ StatedProbability(At(tokens, i)) # 0 =>
                        /\ m.TREND[k].Type = "TEMPO"
                        /\ m.TREND[k].Probability = StatedProbability(At(tokens, i))
            /\ ~(body.from <= i /\ i < body.to)
            /\ \A j \in 1..Len(m.NotDecodedTokens) :
                  HasPrefixPROB(m.NotDecodedTokens[j]) =>
                      \E n \in Cursor..(Len(tokens) - 1) :
                          /\ At(tokens, n) = m.NotDecodedTokens[j]
                          /\ n \notin ProbPairs

\* C13: a Metar with a valid header and no NIL flag has no Remarks (nil) if and
\* only if no RMK occurs at or after the body start cursor; an RMK anywhere from
\* the cursor on, the first position after the header and the last token of the
\* message included, gives a Remark record.
RemarksPresence ==
    (kind = "METAR" /\ pc = "done" /\ SplitRan) =>
        ((m.Remarks = Nil) <=> (FirstRMK = Len(tokens)))

\* the wind of the record that the walk of the wind step fills
WalkWind == IF kind = "parseTrendData" THEN trend.Wind ELSE m.Wind

\* the wind of that record before the step: the step leaves the other record alone
WindBefore == IF kind = "parseTrendData" THEN m.Wind ELSE trend.Wind

\* C14: in the Metar body, the Taf body and the trend walk, a token at the
\* cursor that is no wind group uses 0 tokens and leaves the wind as it was, a
\* wind group uses 1 token, and a wind group with a dddVddd token right after
\* it uses 2 tokens and sets the variable direction from it.
WindConsumption ==
    (kind \in WindWalks /\ pc = "done") =>
        LET tok  == At(tokens, itStart)
            next == TokenOr(tokens, itStart + 1)
            used == count - itStart
        IN  /\ tok \notin WindTokens => (used = 0 /\ WalkWind = WindBefore)
            /\ (tok \in WindTokens /\ next \notin VarDirTokens) =>
                  (used = 1 /\ WalkWind.group = tok)
            /\ (tok \in WindTokens /\ next \in VarDirTokens) =>
                  (used = 2 /\ WalkWind = [group |-> tok, variable |-> next])

\* C16: parseTrendData returns a Trend for every trend slice, one that holds
\* only prefix groups included, and parseRemarks returns for every remarks
\* slice, one with a short QFE token included: neither walk aborts.
SubDecodersTotal ==
    (kind \in {"TREND", "REMARKS"}) =>
        pc \notin {"panic in parseTrendData", "panic in parseRemarks"}

\* the header of a Taf has a station and an issue time, no NIL flag and no
\* DDHH/DDHH validity span
TafHeaderWithoutSpan ==
    LET h == tafHeader(tokens)
    IN  kind = "TAF" /\ h.station # "" /\ h.time # "" /\ ~h.nil /\ h.from = <<>>

\* C17: a Taf whose header has a station and an issue time but no validity span
\* is decoded without aborting, with or without CNL: NewTAF returns a record,
\* and without CNL the body and the trends after the header are decoded.
TafWithoutSpanDecodes ==
    (Final /\ TafHeaderWithoutSpan) =>
        /\ pc # "panic in setTimeRange"
        /\ (pc = "done" /\ ~m.CNL) =>
              /\ body.from = tafHeader(tokens).position
              /\ Len(m.TREND) = Len(trends)
              /\ count = Len(bodySlice)

\* the first token of the body slice, "" for an empty slice
BodyFirst == TokenOr(bodySlice, 0)

\* the cloud layers right after a CAVOK that is the first token of the body
CloudsAfterCavok == Slice(bodySlice, 1, 1 + RunLen(bodySlice, 1, CloudTokens))

\* the trend slices TEMPO / BECMG CAVOK ...: the CAVOK is at the cursor after
\* the prefix groups and the wind group
CavokTrends ==
    {k \in 1..Len(trends) :
        /\ TokenOr(TrendTokens(k), 0) \in {"TEMPO", "BECMG"}
        /\ TokenOr(TrendTokens(k), 1) = "CAVOK"}

\* C18: a CAVOK at the cursor after the wind group sets the CAVOK flag, uses
\* one token and skips only visibility, runway visual range, phenomena and
\* vertical visibility: the cloud layers after it are decoded into Clouds, and
\* in a body so are the trailing groups (temperature, temperature forecasts).
CavokSkipsOnlyWeatherGroups ==
    (Message /\ pc = "done" /\ SplitRan) =>
        /\ (BodyFirst = "CAVOK") =>
              LET k    == Len(CloudsAfterCavok)
                  next == TokenOr(bodySlice, 1 + k)
              IN  /\ m.CAVOK
                  /\ Len(m.Clouds) >= k
                  /\ SubSeq(m.Clouds, 1, k) = CloudsAfterCavok
                  /\ (kind = "METAR" /\ next \in TempTokens) => (m.Temperature = next)
                  /\ (kind = "TAF" /\ next \in TempForecastTokens) =>
                        (m.TemperatureForecast # <<>> /\ m.TemperatureForecast[1].Temp = next)
        /\ \A k \in CavokTrends :
              LET sl == TrendTokens(k)
                  n  == RunLen(sl, 2, CloudTokens)
              IN  /\ k <= Len(m.TREND)
                  /\ m.TREND[k].CAVOK
                  /\ m.TREND[k].Clouds = Slice(sl, 2, 2 + n)

\* the indexes (1-based) of the tokens of the remarks slice that are in S
RemarkIndexes(S) == {j \in 1..Len(remarks) : remarks[j] \in S}

\* C19: every token sequence of the remarks slice that matches a remarks group
\* is decoded, whatever precedes it: each wind-on-runway token gives one
\* WindOnRWY entry, a QBB token gives QBB, an MT OBSC pair gives the flag, and a
\* QFE token gives QFE.
RemarksGroupsDecoded ==
    (kind = "REMARKS" /\ pc = "done") =>
        LET r == m.Remarks[1]
        IN  /\ Len(r.WindOnRWY) = Cardinality(RemarkIndexes(RwyWindTokens))
            /\ \A j \in 1..Len(r.WindOnRWY) : r.WindOnRWY[j].Runway = "06"
            /\ (RemarkIndexes({"QBB120"}) # {}) => (r.QBB = "QBB120")
            /\ (RemarkIndexes({"QFE767"}) # {}) => (r.QFE = "QFE767")
            /\ (\E j \in RemarkIndexes({"MT"}) : j + 1 \in RemarkIndexes({"OBSC"})) =>
                  r.MTOBSC

\* what calOut.op is after setPeriodOfChanges on a TL, an AT and an FM token
TimeOfChangeOps ==
    {"setPeriodOfChanges", "setPeriodOfChanges: AT", "setPeriodOfChanges: FM"}

\* C20: an AT/FM/TL hhmm token of a trend resolves to hh:mm on the day of the
\* issue time of the report, whatever the day of the reference date is.
TimeOfChangeOnIssueDay ==
    (kind = "CAL" /\ pc = "done" /\ calOut.op \in TimeOfChangeOps /\ calIn.hour # 24) =>
        /\ calOut.ok
        /\ calOut.to = [m.DateTime EXCEPT !.h = calIn.hour, !.mi = 0]

\* the goroutines: the one that runs and those that wait
Goroutines == {Locals} \cup {procs[i] : i \in 1..Len(procs)}

\* C15: with the reference date fixed, in every interleaving of concurrent
\* NewMETAR / NewTAF calls each call ends as it ends when it runs alone, with
\* the same record and the same error, so two decodes of one raw text give
\* identical records; and no decode changes the reference date.
ConcurrentDecodesAgree ==
    Message =>
        /\ refDate = <<2023, 5, 31>>
        /\ \A g \in Goroutines :
              Ended(g) =>
                  LET a == Alone(g.kind, g.tokens)
                  IN  /\ g.pc = a.pc
                      /\ (g.pc = "done") => (g.m = a.m /\ g.err = a.err)
        /\ \A g, h \in Goroutines :
              (g.kind = h.kind /\ g.tokens = h.tokens /\ g.pc = "done" /\ h.pc = "done")
                  => (g.m = h.m)

\* a Metar and a Taf decoded by two goroutines that took turns: the log has
\* the errors of the Taf between those of the two trends of the Metar
ConcurrentDecodesWitness ==
    /\ Len(procs) = 1
    /\ pc = "done" /\ procs[1].pc = "done"
    /\ kind # procs[1].kind
    /\ m.TREND # <<>> /\ procs[1].m.TREND # <<>>
    /\ log = <<"setPeriodOfChanges: AT", "setDateTime: from", "setDateTime: till",
               "setPeriodOfChanges: AT">>

=============================================================================
